---- MODULE Spec2Model ----
(***************************************************************************)
(* Model of the recipe infra/recipes/jiri.py: the PROPERTIES declaration   *)
(* and the function RunSteps.  A run is a record (the parameters and local *)
(* variables of RunSteps, the position in its body, and the log of the     *)
(* calls made on the api modules).  Python values are None or a string:    *)
(* None is the empty tuple and the string s is the one-element tuple <<s>>.*)
(* Two runs are carried: `run`, and `twin`, a second run of the same       *)
(* program that takes the same steps with the same outcomes as `run`       *)
(* (used to compare runs that differ only in some inputs).                 *)
(***************************************************************************)
EXTENDS Integers, Sequences, FiniteSets, TLC

VARIABLES run, twin

vars == <<run, twin>>

-----------------------------------------------------------------------------
(* Bounds of the input space *)

MaxSlashes == 2
MaxFields == 3

-----------------------------------------------------------------------------
(* Python values and string methods *)

None == << >>

Str(s) == <<s>>

\* truth value of a None-or-string value (used by `assert repo_url and refspec`)
Truthy(v) == v # None /\ v[1] # ""

\* str.startswith
StartsWith(s, p) == Len(s) >= Len(p) /\ SubSeq(s, 1, Len(p)) = p

\* str.rstrip(ch) for a one-character ch
RECURSIVE RStrip(_, _)
RStrip(s, ch) ==
    IF Len(s) > 0 /\ SubSeq(s, Len(s), Len(s)) = ch
    THEN RStrip(SubSeq(s, 1, Len(s) - 1), ch)
    ELSE s

\* index of the first occurrence of the one-character ch in s at or after i,
\* 0 when there is none (str.find, 1-based)
RECURSIVE Find(_, _, _)
Find(s, ch, i) ==
    IF i > Len(s) THEN 0
    ELSE IF SubSeq(s, i, i) = ch THEN i
    ELSE Find(s, ch, i + 1)

\* str.split(sep, maxsplit) for a one-character sep: at most maxsplit splits,
\* the remainder of the string is the last element
RECURSIVE Split(_, _, _)
Split(s, sep, maxsplit) ==
    LET i == Find(s, sep, 1) IN
    IF maxsplit = 0 \/ i = 0 THEN <<s>>
    ELSE <<SubSeq(s, 1, i - 1)>> \o Split(SubSeq(s, i + 1, Len(s)), sep, maxsplit - 1)

\* the conversion %s applies to a value
PyStr(v) == IF v = None THEN "None" ELSE v[1]

RECURSIVE Repeat(_, _)
Repeat(s, n) == IF n = 0 THEN "" ELSE s \o Repeat(s, n - 1)

RECURSIVE Join(_, _)
Join(fields, sep) ==
    IF Len(fields) = 1 THEN fields[1]
    ELSE fields[1] \o sep \o Join(Tail(fields), sep)

-----------------------------------------------------------------------------
(* PROPERTIES: the inputs of a run *)

PropertyDefault ==
    [gerrit_host |-> None, gerrit_project |-> None, gerrit_patch_ref |-> None,
     repo_url |-> None, refspec |-> Str("master"), category |-> None]

Categories == {None, Str("cq"), Str("ci")}

RepoUrls == {None, Str(""), Str("https://fuchsia.googlesource.com/jiri"),
             Str("http://fuchsia.googlesource.com/jiri"), Str("https")}

Refspecs == {None, Str(""), Str("dev")}

GerritHosts ==
    {None, Str(""), Str("https://")}
    \cup {Str(scheme \o "review" \o Repeat("/", n)) :
             scheme \in {"https://", "http://"}, n \in 0..MaxSlashes}

GerritProjects == {None, Str(""), Str("jiri")}

GerritPatchRefs == {None, Str(""), Str("refs/changes/0/1/2")}

TargetFields == {"linux", "amd64"}

\* targets with an empty field
EdgeTargets == {Str(""), Str("-amd64"), Str("linux-")}

Targets ==
    {Str(Join(f, "-")) : f \in UNION {[1..n -> TargetFields] : n \in 1..MaxFields}}
    \cup EdgeTargets

Manifests == {Str("jiri")}

Remotes == {Str("https://fuchsia.googlesource.com/manifest")}

\* the properties a caller supplies; None is a property that is not supplied
Properties ==
    [gerrit_host : GerritHosts, gerrit_project : GerritProjects,
     gerrit_patch_ref : GerritPatchRefs, repo_url : RepoUrls,
     refspec : Refspecs, category : Categories,
     manifest : Manifests, remote : Remotes, target : Targets]

-----------------------------------------------------------------------------
(* The state of a run of RunSteps *)

\* the run before the recipe engine has bound the properties to the
\* parameters of RunSteps; no local variable is assigned yet
NewRun(p) ==
    [props |-> p, pc |-> "bind",
     category |-> None, repo_url |-> None, refspec |-> None,
     gerrit_host |-> None, gerrit_project |-> None, gerrit_patch_ref |-> None,
     manifest |-> None, remote |-> None, target |-> None,
     git_commit |-> None, build_time |-> None, ldflags |-> None,
     goos |-> None, goarch |-> None,
     calls |-> << >>, pending |-> "", error |-> ""]

\* no second run
NoTwin == [pc |-> "absent", pending |-> ""]

\* values the collaborators and the clock can produce
GitCommits == {"c0ffee", "deadbeef"}

BuildTimes == {"2016-11-02T09:00:00"}

\* api.path['slave_build'].join('go')
gopath == "[slave_build]/go"

\* api.path['slave_build'].join('go', 'src', 'fuchsia.googlesource.com', 'jiri')
srcdir == "[slave_build]/go/src/fuchsia.googlesource.com/jiri"

package == <<"fuchsia.googlesource.com/jiri/cmd/jiri">>

NoKwargs == [none |-> TRUE]

\* a dict of strings is the set of its (key, value) pairs
NoEnv == {}

-----------------------------------------------------------------------------
(* The body of RunSteps, as functions from a run to the run after the step *)

\* a Property without a value takes its declared default
Param(p, name) == IF p[name] = None THEN PropertyDefault[name] ELSE p[name]

Bind(s) ==
    [s EXCEPT !.pc = "resolve",
              !.category = Param(s.props, "category"),
              !.repo_url = Param(s.props, "repo_url"),
              !.refspec = Param(s.props, "refspec"),
              !.gerrit_host = Param(s.props, "gerrit_host"),
              !.gerrit_project = Param(s.props, "gerrit_project"),
              !.gerrit_patch_ref = Param(s.props, "gerrit_patch_ref"),
              !.manifest = s.props.manifest,
              !.remote = s.props.remote,
              !.target = s.props.target]

\* an exception leaves RunSteps: the run is over
Abort(s, exception) == [s EXCEPT !.pc = "failed", !.error = exception, !.pending = ""]

\* variant: any category at all selects the override
IsCq_AnyCategory(s) == s.category # None

IsCq(s) == s.category = Str("cq")

\* variant: the host is not stripped
GerritRepoUrl_NoStrip(gerrit_host, gerrit_project) ==
    Str(gerrit_host[1] \o "/" \o PyStr(gerrit_project))

\* '%s/%s' % (gerrit_host.rstrip('/'), gerrit_project)
GerritRepoUrl(gerrit_host, gerrit_project) ==
    Str(RStrip(gerrit_host[1], "/") \o "/" \o PyStr(gerrit_project))

\* variant: the scheme of the URL is not checked
ValidInputs_NoScheme(repo_url, refspec) == Truthy(repo_url) /\ Truthy(refspec)

\* the two assertions that follow the override
ValidInputs(repo_url, refspec) ==
    /\ Truthy(repo_url) /\ Truthy(refspec)
    /\ StartsWith(repo_url[1], "https://")

CheckInputs(s) ==
    IF ValidInputs(s.repo_url, s.refspec)
    THEN [s EXCEPT !.pc = "ensure_jiri"]
    ELSE Abort(s, "AssertionError")

ResolveInputs(s) ==
    IF IsCq(s)
    THEN IF s.gerrit_host = None THEN Abort(s, "AttributeError")
         ELSE IF ~StartsWith(s.gerrit_host[1], "https://") THEN Abort(s, "AssertionError")
         ELSE CheckInputs([s EXCEPT
                  !.repo_url = GerritRepoUrl(s.gerrit_host, s.gerrit_project),
                  !.refspec = s.gerrit_patch_ref])
    ELSE CheckInputs(s)

\* the call of a collaborator begins
Invoke(s, op, args, kwargs, env) ==
    [s EXCEPT !.calls = Append(@, [op |-> op, args |-> args, kwargs |-> kwargs, env |-> env]),
              !.pending = op]

\* variant: the patch is applied after the toolchain is installed
Continue_PatchLate(s, op) ==
    CASE op = "ensure_jiri" -> "set_config"
      [] op = "set_config" -> "clean_project"
      [] op = "clean_project" -> "import_manifest"
      [] op = "import_manifest" -> "update"
      [] op = "update" -> "install_go"
      [] op = "install_go" -> IF IsCq(s) THEN "patch" ELSE "rev_parse"
      [] op = "patch" -> "rev_parse"
      [] op = "rev_parse" -> "prepare_build"
      [] op = "build" -> "test"
      [] op = "test" -> "done"

\* variant: the patch is skipped
Continue_NoPatch(s, op) ==
    CASE op = "ensure_jiri" -> "set_config"
      [] op = "set_config" -> "clean_project"
      [] op = "clean_project" -> "import_manifest"
      [] op = "import_manifest" -> "update"
      [] op = "update" -> "install_go"
      [] op = "patch" -> "install_go"
      [] op = "install_go" -> "rev_parse"
      [] op = "rev_parse" -> "prepare_build"
      [] op = "build" -> "test"
      [] op = "test" -> "done"

\* variant: the patch is applied whenever a patch ref is given
Continue_PatchOnRef(s, op) ==
    CASE op = "ensure_jiri" -> "set_config"
      [] op = "set_config" -> "clean_project"
      [] op = "clean_project" -> "import_manifest"
      [] op = "import_manifest" -> "update"
      [] op = "update" -> IF s.gerrit_patch_ref # None THEN "patch" ELSE "install_go"
      [] op = "patch" -> "install_go"
      [] op = "install_go" -> "rev_parse"
      [] op = "rev_parse" -> "prepare_build"
      [] op = "build" -> "test"
      [] op = "test" -> "done"

\* variant: the run is over once the build has returned
Continue_NoTest(s, op) ==
    CASE op = "ensure_jiri" -> "set_config"
      [] op = "set_config" -> "clean_project"
      [] op = "clean_project" -> "import_manifest"
      [] op = "import_manifest" -> "update"
      [] op = "update" -> IF IsCq(s) THEN "patch" ELSE "install_go"
      [] op = "patch" -> "install_go"
      [] op = "install_go" -> "rev_parse"
      [] op = "rev_parse" -> "prepare_build"
      [] op = "build" -> "done"
      [] op = "test" -> "done"

\* the statement that follows the call of op
Continue(s, op) ==
    CASE op = "ensure_jiri" -> "set_config"
      [] op = "set_config" -> "clean_project"
      [] op = "clean_project" -> "import_manifest"
      [] op = "import_manifest" -> "update"
      [] op = "update" -> IF IsCq(s) THEN "patch" ELSE "install_go"
      [] op = "patch" -> "install_go"
      [] op = "install_go" -> "rev_parse"
      [] op = "rev_parse" -> "prepare_build"
      [] op = "build" -> "test"
      [] op = "test" -> "done"

\* the pending call returns result
Returned(s, result) ==
    [s EXCEPT !.pending = "",
              !.pc = Continue(s, s.pending),
              !.git_commit = IF s.pending = "rev_parse" THEN Str(result) ELSE @]

\* variant: the exception is swallowed and the run goes on
Raised_Swallowed(s) ==
    [s EXCEPT !.pending = "", !.pc = Continue(s, s.pending)]

\* the pending call raises
Raised(s) == Abort(s, "StepFailure")

Results(op) == IF op = "rev_parse" THEN GitCommits ELSE {"None"}

Ldflags(git_commit, build_time) ==
    "-X \"fuchsia.googlesource.com/jiri/version.GitCommit=" \o PyStr(git_commit)
    \o "\" -X \"fuchsia.googlesource.com/jiri/version.BuildTime=" \o build_time \o "\""

\* variant: target.split("-", 1)
TargetParts_OneSplit(target) == Split(target[1], "-", 1)

\* target.split("-", 2)
TargetParts(target) == Split(target[1], "-", 2)

\* build_time, ldflags, gopath and `goos, goarch = target.split("-", 2)`
PrepareBuildStep(s, now) ==
    LET t == [s EXCEPT !.build_time = Str(now),
                       !.ldflags = Str(Ldflags(s.git_commit, now))]
        parts == TargetParts(s.target)
    IN  IF Len(parts) # 2 THEN Abort(t, "ValueError")
        ELSE [t EXCEPT !.goos = Str(parts[1]), !.goarch = Str(parts[2]), !.pc = "build"]

\* variant: GOOS and GOARCH exchanged
BuildEnv_Swapped(s) == {<<"GOPATH", gopath>>, <<"GOOS", s.goarch[1]>>, <<"GOARCH", s.goos[1]>>}

BuildEnv(s) == {<<"GOPATH", gopath>>, <<"GOOS", s.goos[1]>>, <<"GOARCH", s.goarch[1]>>}

TestEnv(s) == {<<"GOPATH", gopath>>}

-----------------------------------------------------------------------------
(* Actions *)

\* `run` takes the step f; the second run, when it is at the same place,
\* takes the same step
Lockstep(f(_)) ==
    /\ run' = f(run)
    /\ twin' = IF twin.pc = run.pc /\ twin.pending = run.pending THEN f(twin) ELSE twin

At(label) == run.pc = label /\ run.pending = ""

BindProperties ==
    /\ At("bind")
    /\ Lockstep(Bind)

InputResolution ==
    /\ At("resolve")
    /\ Lockstep(ResolveInputs)

EnsureJiri ==
    /\ At("ensure_jiri")
    /\ Lockstep(LAMBDA s : Invoke(s, "ensure_jiri", << >>, NoKwargs, NoEnv))

SetConfig ==
    /\ At("set_config")
    /\ Lockstep(LAMBDA s : Invoke(s, "set_config", <<"jiri">>, NoKwargs, NoEnv))

CleanProject ==
    /\ At("clean_project")
    /\ Lockstep(LAMBDA s : Invoke(s, "clean_project", << >>, NoKwargs, NoEnv))

ImportManifest ==
    /\ At("import_manifest")
    /\ Lockstep(LAMBDA s : Invoke(s, "import_manifest", <<s.manifest, s.remote>>,
                                  [overwrite |-> TRUE], NoEnv))

Update ==
    /\ At("update")
    /\ Lockstep(LAMBDA s : Invoke(s, "update", << >>, [gc |-> TRUE], NoEnv))

Patch ==
    /\ At("patch")
    /\ Lockstep(LAMBDA s : Invoke(s, "patch", <<s.gerrit_patch_ref>>,
                                  [host |-> s.gerrit_host, delete |-> TRUE, force |-> TRUE],
                                  NoEnv))

InstallGo ==
    /\ At("install_go")
    /\ Lockstep(LAMBDA s : Invoke(s, "install_go", << >>, NoKwargs, NoEnv))

RevParse ==
    /\ At("rev_parse")
    /\ Lockstep(LAMBDA s : Invoke(s, "rev_parse", << >>, [cwd |-> srcdir], NoEnv))

PrepareBuild ==
    /\ At("prepare_build")
    /\ \E now \in BuildTimes : Lockstep(LAMBDA s : PrepareBuildStep(s, now))

Build ==
    /\ At("build")
    /\ Lockstep(LAMBDA s : Invoke(s, "build", <<package>>,
                                  [ldflags |-> s.ldflags, force |-> TRUE], BuildEnv(s)))

Test ==
    /\ At("test")
    /\ Lockstep(LAMBDA s : Invoke(s, "test", <<package>>,
                                  [env |-> TestEnv(s)], TestEnv(s)))

StepReturns ==
    /\ run.pending # ""
    /\ \E result \in Results(run.pending) : Lockstep(LAMBDA s : Returned(s, result))

StepRaises ==
    /\ run.pending # ""
    /\ Lockstep(Raised)

Init ==
    /\ \E p \in Properties : run = NewRun(p)
    /\ twin = NoTwin

Next ==
    \/ BindProperties
    \/ InputResolution
    \/ EnsureJiri
    \/ SetConfig
    \/ CleanProject
    \/ ImportManifest
    \/ Update
    \/ Patch
    \/ InstallGo
    \/ RevParse
    \/ PrepareBuild
    \/ Build
    \/ Test
    \/ StepReturns
    \/ StepRaises

Spec == Init /\ [][Next]_vars

-----------------------------------------------------------------------------
(* Further specifications *)

\* every call returns or raises and the interpreter goes on to the next statement
FairSpec == Spec /\ WF_vars(Next)

PairHosts == {None, Str("http://review"), Str("https://review/")}

PairProperties ==
    [gerrit_host : PairHosts, gerrit_project : {None, Str("jiri")},
     gerrit_patch_ref : {None, Str("refs/changes/0/1/2")},
     repo_url : {None, Str("https://fuchsia.googlesource.com/jiri")},
     refspec : {None, Str("dev")}, category : Categories,
     manifest : Manifests, remote : Remotes,
     target : {Str("linux-amd64"), Str("linux")}]

GerritInputs == {"gerrit_host", "gerrit_project", "gerrit_patch_ref"}

\* two runs that agree on every property but the three gerrit ones
InitPair ==
    \E p \in PairProperties, q \in PairProperties :
        /\ \A name \in (DOMAIN p) \ GerritInputs : p[name] = q[name]
        /\ run = NewRun(p)
        /\ twin = NewRun(q)

PairSpec == InitPair /\ [][Next]_vars

-----------------------------------------------------------------------------
(* Vocabulary of the properties *)

Ops(s) == [i \in 1..Len(s.calls) |-> s.calls[i].op]

Called(s, op) == \E i \in 1..Len(s.calls) : s.calls[i].op = op

Resolved(s) == s.pc \notin {"bind", "resolve"}

Terminated(s) == s.pc \in {"done", "failed"}

HttpsPrefix == "https://"

SecureUrl(v) ==
    /\ v # None
    /\ Len(v[1]) >= 8
    /\ \A i \in 1..8 : SubSeq(v[1], i, i) = SubSeq(HttpsPrefix, i, i)

NonEmpty(v) == v # None /\ Len(v[1]) > 0

IsPrefix(a, b) == Len(a) <= Len(b) /\ \A i \in 1..Len(a) : a[i] = b[i]

EndsWithSlash(s) == Len(s) > 0 /\ SubSeq(s, Len(s), Len(s)) = "/"

HyphenCount(s) == Cardinality({i \in 1..Len(s) : SubSeq(s, i, i) = "-"})

ExpectedOps(cq) ==
    <<"ensure_jiri", "set_config", "clean_project", "import_manifest", "update">>
    \o (IF cq THEN <<"patch">> ELSE << >>)
    \o <<"install_go", "rev_parse", "build", "test">>

-----------------------------------------------------------------------------
(* Input resolution *)

\* C1: a collaborator is called only when the effective repo_url (after the
\* cq override) is non-empty and starts with "https://" and the effective
\* refspec is non-empty; when one of these fails, or the cq host is missing
\* or not https, the run has aborted and no collaborator call has been made.
NoCallBeforeValidInputs ==
    /\ run.calls # << >> => SecureUrl(run.repo_url) /\ NonEmpty(run.refspec)
    /\ (Resolved(run) /\ ~(SecureUrl(run.repo_url) /\ NonEmpty(run.refspec)))
          => run.pc = "failed" /\ run.calls = << >>
    /\ (Resolved(run) /\ run.props.category = Str("cq") /\ ~SecureUrl(run.props.gerrit_host))
          => run.pc = "failed" /\ run.calls = << >>

\* a run aborted on a repo_url that is supplied but is not an https URL
InsecureUrlAborted ==
    /\ run.pc = "failed" /\ run.error = "AssertionError" /\ run.calls = << >>
    /\ NonEmpty(run.repo_url) /\ ~SecureUrl(run.repo_url)
    /\ NonEmpty(run.refspec)

\* the text the gerrit project contributes to the URL (a project that is not
\* supplied is formatted as the text None)
ProjectText(p) == IF p.gerrit_project = None THEN "None" ELSE p.gerrit_project[1]

\* C2: in a cq run whose gerrit host starts with "https://", the resolved
\* repo_url is the host without its trailing slashes, then "/", then the
\* gerrit project, and the resolved refspec is the gerrit patch ref, whatever
\* repo_url and refspec were supplied.
CqOverridesRepoAndRefspec ==
    LET p == run.props IN
    (Resolved(run) /\ p.category = Str("cq") /\ SecureUrl(p.gerrit_host)) =>
        /\ \E k \in 0..Len(p.gerrit_host[1]) :
              LET base == SubSeq(p.gerrit_host[1], 1, Len(p.gerrit_host[1]) - k) IN
              /\ ~EndsWithSlash(base)
              /\ p.gerrit_host[1] = base \o Repeat("/", k)
              /\ run.repo_url = Str(base \o "/" \o ProjectText(p))
        /\ run.refspec = p.gerrit_patch_ref

\* a cq run resolved from a host with trailing slashes while another
\* repo_url and refspec were supplied
CqResolvedOverSupplied ==
    /\ Resolved(run) /\ run.props.category = Str("cq")
    /\ SecureUrl(run.props.gerrit_host) /\ EndsWithSlash(run.props.gerrit_host[1])
    /\ NonEmpty(run.props.gerrit_project)
    /\ NonEmpty(run.props.repo_url) /\ NonEmpty(run.props.refspec)
    /\ run.repo_url # run.props.repo_url
    /\ run.pc = "ensure_jiri"

\* C3: in a run whose category is not "cq" (or is absent) the resolved
\* repo_url and refspec are the supplied ones, the refspec being "master"
\* when none is supplied.
NonCqPassesThrough ==
    LET p == run.props IN
    (run.pc # "bind" /\ p.category # Str("cq")) =>
        /\ run.repo_url = p.repo_url
        /\ run.refspec = IF p.refspec = None THEN Str("master") ELSE p.refspec

\* a non-cq run, past input resolution, that was given all three gerrit
\* inputs and no refspec
NonCqResolvedWithGerritInputs ==
    /\ Resolved(run) /\ run.pc # "failed"
    /\ run.props.category = Str("ci")
    /\ NonEmpty(run.props.gerrit_host) /\ NonEmpty(run.props.gerrit_project)
    /\ NonEmpty(run.props.gerrit_patch_ref)
    /\ run.props.refspec = None
    /\ run.refspec = Str("master")

-----------------------------------------------------------------------------
(* The pipeline *)

CallOf(s, op) == s.calls[CHOOSE i \in 1..Len(s.calls) : s.calls[i].op = op]

\* C4: the collaborators are called in the order ensure_jiri, set_config,
\* clean_project, import_manifest (overwrite=true), update (gc=true), patch
\* (cq only), install_go, rev_parse, build, test; a call begins only when the
\* previous one has completed; a run that succeeds has made all of them.
FixedCallOrder ==
    /\ [](/\ IsPrefix(Ops(run), ExpectedOps(run.props.category = Str("cq")))
          /\ (run.pc = "done" => Ops(run) = ExpectedOps(run.props.category = Str("cq")))
          /\ (Called(run, "import_manifest") =>
                 /\ CallOf(run, "import_manifest").kwargs = [overwrite |-> TRUE]
                 /\ CallOf(run, "import_manifest").args = <<run.props.manifest, run.props.remote>>)
          /\ (Called(run, "update") => CallOf(run, "update").kwargs = [gc |-> TRUE])
          /\ (run.pending # "" => run.calls # << >> /\ run.calls[Len(run.calls)].op = run.pending))
    /\ [][run'.calls # run.calls =>
             /\ run.pending = ""
             /\ \E c \in {run'.calls[Len(run'.calls)]} : run'.calls = Append(run.calls, c)]_vars

\* a cq run that succeeded
CqRunSucceeded ==
    /\ run.pc = "done" /\ run.props.category = Str("cq")
    /\ Len(run.calls) = 10

\* C5: in a cq run that reaches the toolchain setup, patch has been called
\* exactly once, right after update and right before install_go, with the
\* supplied patch ref, the supplied gerrit host, delete=true and force=true;
\* in a run of another category patch is never called.
PatchIffCq ==
    LET p == run.props
        at == {i \in 1..Len(run.calls) : run.calls[i].op = "patch"}
    IN  /\ p.category # Str("cq") => at = {}
        /\ Cardinality(at) <= 1
        /\ \A i \in at :
              /\ i > 1 /\ run.calls[i - 1].op = "update"
              /\ run.calls[i].args = <<p.gerrit_patch_ref>>
              /\ run.calls[i].kwargs = [host |-> p.gerrit_host, delete |-> TRUE, force |-> TRUE]
              /\ i < Len(run.calls) => run.calls[i + 1].op = "install_go"
        /\ (p.category = Str("cq") /\ Called(run, "install_go")) => Cardinality(at) = 1
        /\ (p.category = Str("cq") /\ Called(run, "update") /\ run.pending = ""
               /\ run.pc # "failed" /\ Len(run.calls) = 5) => run.pc = "patch"

\* a cq run that has patched and gone on to install the toolchain
CqPatchedThenInstalled ==
    /\ run.props.category = Str("cq")
    /\ Called(run, "patch") /\ Called(run, "install_go")

\* C6: a collaborator call that raises ends the run in failure at that
\* call; a failed run makes no further step; no collaborator operation is
\* invoked twice.
StepFailureIsFatal ==
    /\ [](\A i, j \in 1..Len(run.calls) : run.calls[i].op = run.calls[j].op => i = j)
    /\ [](run.error = "StepFailure" => run.pc = "failed" /\ run.pending = "" /\ run.calls # << >>)
    /\ [][StepRaises => /\ run'.pc = "failed"
                        /\ run'.error = "StepFailure"
                        /\ run'.calls = run.calls
                        /\ run.calls[Len(run.calls)].op = run.pending]_vars
    /\ [][run.pc = "failed" => run' = run]_vars

\* the build raised after the whole checkout went through
BuildRaised ==
    /\ run.pc = "failed" /\ run.error = "StepFailure"
    /\ Len(run.calls) >= 9 /\ run.calls[Len(run.calls)].op = "build"

-----------------------------------------------------------------------------
(* The target *)

\* C7: for a target OS-ARCH with exactly one "-", build runs with the
\* environment GOPATH, GOOS=OS, GOARCH=ARCH and test runs with the
\* environment GOPATH alone.
TargetPairReachesBuild ==
    (run.target # None /\ HyphenCount(PyStr(run.target)) = 1) =>
        LET t == run.target[1]
            k == CHOOSE i \in 1..Len(t) : SubSeq(t, i, i) = "-"
        IN  /\ Called(run, "build") =>
                CallOf(run, "build").env =
                    {<<"GOPATH", gopath>>, <<"GOOS", SubSeq(t, 1, k - 1)>>,
                     <<"GOARCH", SubSeq(t, k + 1, Len(t))>>}
            /\ Called(run, "test") =>
                /\ CallOf(run, "test").env = {<<"GOPATH", gopath>>}
                /\ CallOf(run, "test").kwargs = [env |-> {<<"GOPATH", gopath>>}]

\* linux-amd64 was built and is being tested
LinuxAmd64Tested ==
    /\ run.target = Str("linux-amd64")
    /\ Called(run, "build") /\ Called(run, "test")
    /\ <<"GOOS", "linux">> \in CallOf(run, "build").env
    /\ <<"GOARCH", "amd64">> \in CallOf(run, "build").env

\* C8: a target that is not exactly two "-"-separated fields is an error:
\* the run fails when the target is parsed, neither build nor test is
\* called, and the run never succeeds.
MalformedTargetIsAnError ==
    (run.target # None /\ HyphenCount(PyStr(run.target)) # 1) =>
        /\ ~Called(run, "build") /\ ~Called(run, "test")
        /\ run.pc \notin {"build", "test", "done"}
        /\ run.goos = None /\ run.goarch = None
        /\ Called(run, "rev_parse") /\ run.pending = "" => run.pc \in {"prepare_build", "failed"}

\* a target of three fields was rejected when it was parsed
ThreeFieldTargetRejected ==
    /\ run.pc = "failed" /\ run.error = "ValueError"
    /\ HyphenCount(PyStr(run.target)) >= 2
    /\ Called(run, "rev_parse")

-----------------------------------------------------------------------------
(* Two runs, and termination *)

\* C9: two runs of a category other than "cq" that agree on category,
\* repo_url, refspec, manifest, remote and target and on the outcomes of
\* the collaborators, and differ only in the gerrit host, project and patch
\* ref, make the same calls with the same arguments and are at the same place
\* with the same outcome.
GerritInputsIgnoredOutsideCq ==
    (/\ run.props.category # Str("cq")
     /\ \A name \in (DOMAIN run.props) \ GerritInputs : run.props[name] = twin.props[name]) =>
        /\ twin.pc = run.pc
        /\ twin.pending = run.pending
        /\ twin.calls = run.calls
        /\ twin.error = run.error
        /\ twin.repo_url = run.repo_url
        /\ twin.refspec = run.refspec

\* two non-cq runs that differ in each of the three gerrit inputs have both
\* succeeded
TwoNonCqRunsSucceeded ==
    /\ run.props.category # Str("cq")
    /\ run.pc = "done" /\ twin.pc = "done"
    /\ \A name \in GerritInputs : run.props[name] # twin.props[name]
    /\ run.props.gerrit_host = Str("https://review/")
    /\ twin.props.gerrit_patch_ref # None

\* C10: when every collaborator call returns or raises, a run reaches a
\* terminal outcome and stays there: success, only after test has completed
\* following build, or failure; a run makes at most ten collaborator calls,
\* nine when the category is not "cq".
RunTerminates ==
    /\ <>Terminated(run)
    /\ [][Terminated(run) => run' = run]_vars
    /\ [](run.pc = "done" =>
             /\ run.pending = "" /\ run.error = ""
             /\ Len(run.calls) >= 2
             /\ run.calls[Len(run.calls)].op = "test"
             /\ run.calls[Len(run.calls) - 1].op = "build")
    /\ [](Len(run.calls) <= IF run.props.category = Str("cq") THEN 10 ELSE 9)

\* a non-cq run succeeded with nine calls
NonCqRunSucceeded ==
    /\ run.pc = "done" /\ run.props.category # Str("cq")
    /\ Len(run.calls) = 9

====
